---- MODULE Spec2Model ----
(***************************************************************************)
(* NAJM accident-reporting demo: the conversation server's JSON-file       *)
(* ticket store, the SQLite backend with its JWT middleware, and the chat  *)
(* client's LLM-driven phase tracker.                                      *)
(***************************************************************************)
EXTENDS Integers, Sequences, FiniteSets, TLC

VARIABLES
    now,        \* wall clock read by new Date() / Date.now()
    res,        \* the request handled last and the response it was given
    dataFile,   \* conversation server: the tickets array of the JSON data file
    nextUuid,   \* conversation server: uuidv4() source of the multer filename
    disk,       \* conversation server: the files under UPLOAD_DIR, as <<folder, filename>>
    users,          \* SQLite backend: rows of table users
    tickets,        \* SQLite backend: rows of table tickets, in insertion order
    attachments,    \* SQLite backend: rows of table attachments
    conversations,  \* SQLite backend: rows of table conversations
    findings,       \* SQLite backend: rows of table findings
    audio_files,    \* SQLite backend: rows of table audio_files
    audioDir,       \* SQLite backend: number of files under uploads/audio
    GROQ_API_KEY,   \* conversation server: process.env.GROQ_API_KEY
    temp_audio,     \* conversation server: the files under uploads/temp_audio
    nextAudio,      \* conversation server: uuidv4() source of the audio filename
    sttCalls,       \* conversation server: the POST /stt requests awaiting Groq
    page,                 \* chat client: the page showPage() made active
    chatHistory,          \* chat client: the messages sent to the LLM
    currentTicket,        \* chat client: the id of the ticket created last, <<>> for null
    currentPhase,         \* chat client: the phase parsed from the LLM's state block
    ticketData,           \* chat client: the ticket object of the LLM's state block
    ticketAlreadyCreated, \* chat client: the flag against duplicate ticket creation
    uploadedFiles,        \* chat client: the files uploaded for the ticket
    clientTickets,        \* chat client: the in-memory list tickets of app.js, by ticket id
    chatMessages,         \* chat client: the bubble addMessage() appended last
    calls,                \* chat client: the getAIResponse() calls awaiting a response
    readers,              \* chat client: the FileReaders that have not fired onload
    imageUploads,         \* chat client: the uploadImage() requests awaiting a response
    transcriptHtml,       \* admin panel: the transcript shown by viewTicketDetails()
    voiceEnabled,     \* chat client: voice mode, switched on by the microphone
    mediaRecorder,    \* voice module: the MediaRecorder created last, <<>> for null
    recorders,        \* voice module: the state of each MediaRecorder created
    recordingTimer,   \* voice module: the interval id stored last, <<>> for null
    timers,           \* voice module: the intervals that have not been cleared
    recordingSeconds, \* voice module: the seconds counted by the timer
    isRecording,      \* voice module: the recording flag
    micRequests,      \* voice module: the startRecording() calls awaiting getUserMedia
    transcriptions,   \* voice module: the transcribeAudio() calls awaiting their fetch
    ttsCalls,         \* TTS: the speakAssistantMessage() calls awaiting textToSpeech
    currentAudio,     \* TTS: the Audio element stored last, <<>> for null
    audios,           \* TTS: the state of each Audio element created
    speeches          \* TTS: the VoiceConversation.textToSpeech() calls and their outcome

storeVars == <<dataFile, nextUuid, disk>>

childTables == <<attachments, conversations, findings, audio_files>>

dbVars == <<users, tickets, attachments, conversations, findings, audio_files, audioDir>>

chatVars == <<page, chatHistory, currentTicket, currentPhase, ticketData,
              ticketAlreadyCreated, uploadedFiles, clientTickets, chatMessages,
              calls, readers, imageUploads, transcriptHtml>>

recordingVars == <<mediaRecorder, recorders, recordingTimer, timers, recordingSeconds,
                   isRecording, micRequests, transcriptions>>

audioVars == <<currentAudio, audios, speeches>>

voiceVars == <<voiceEnabled, recordingVars, ttsCalls, audioVars>>

clientVars == <<chatVars, voiceVars>>

sttVars == <<GROQ_API_KEY, temp_audio, nextAudio, sttCalls>>

serverVars == <<now, res, storeVars, dbVars, sttVars>>

vars == <<serverVars, clientVars>>

(***************************************************************************)
(* Bounds of the model.                                                    *)
(***************************************************************************)
MaxClock == 3
MaxTickets == 3
MaxUploads == 1
MaxTicketRows == 3
MaxChildRows == 2
MaxHistory == 4
MaxCalls == 2
MaxClientTickets == 2
MaxImages == 1
MaxPhotos == 1
MaxAudio == 3
MaxTts == 1
MaxAudios == 2
MaxMicRequests == 2
MaxRecorders == 2
MaxSeconds == 61
MaxSpeeches == 2

\* JavaScript undefined: a key the request or the object does not have.
Undefined == "undefined"

\* if (x): undefined and the empty string are falsy.
Truthy(x) == x # Undefined /\ x # ""

TicketIds == {"t1", "t2"}

\* A request without Authorization header.
NoHeader == [authorization |-> Undefined]

NoRes == [route |-> "none", id |-> Undefined, auth |-> NoHeader, status |-> 0, message |-> ""]

\* new Date(): a request that reads the clock reads a later time than the
\* requests before it.
ClockRead ==
    /\ now < MaxClock
    /\ now' = now + 1

(***************************************************************************)
(* Conversation server: JSON-file ticket store.                            *)
(***************************************************************************)

\* readTicketsData(): the parsed tickets array, or the empty one when the
\* read or the parse throws.
readTicketsData(readOk) == IF readOk THEN dataFile ELSE <<>>

\* writeTicketsData(data): the file after the write; a failed write is caught
\* and leaves the file as it was.
writeTicketsData(data, writeOk) == IF writeOk THEN data ELSE dataFile

\* tickets.find(t => t.id === id): index of the first match, 0 for none.
FindTicket(tks, id) ==
    IF \E i \in 1..Len(tks) : tks[i].id = id
    THEN CHOOSE i \in 1..Len(tks) :
            /\ tks[i].id = id
            /\ \A j \in 1..(i - 1) : tks[j].id # id
    ELSE 0

\* The literal { id, createdAt, uploads: [] } both handlers push; updatedAt is
\* assigned by the same handler before it writes the file.
NewTicket(id) ==
    [id |-> id, createdAt |-> now, uploads |-> <<>>,
     transcript |-> Undefined, extracted_data |-> Undefined,
     description |-> Undefined, updatedAt |-> now]

\* Mutant: the ticket is pushed without looking for its id first.
FindOrCreateBug(tks, id) == Append(tks, NewTicket(id))

\* The tickets array with a new ticket pushed when find() found none.
FindOrCreate(tks, id) ==
    IF FindTicket(tks, id) = 0 THEN Append(tks, NewTicket(id)) ELSE tks

\* Mutant: the extracted_data assignment is missing.
UpdateTicketBug(ticket, req) ==
    [ticket EXCEPT
        !.transcript = IF Truthy(req.transcript) THEN req.transcript ELSE @,
        !.description = IF Truthy(req.description) THEN req.description ELSE @,
        !.updatedAt = now]

\* Mutant: the stored ticket is replaced by one built from the request.
UpdateTicketReplace(ticket, req) ==
    [id |-> ticket.id, createdAt |-> now, uploads |-> <<>>,
     transcript |-> req.transcript, extracted_data |-> req.extracted_data,
     description |-> req.description, updatedAt |-> now]

\* "Update ticket data" of POST /tickets: a falsy field keeps the stored value.
UpdateTicket(ticket, req) ==
    [ticket EXCEPT
        !.transcript = IF Truthy(req.transcript) THEN req.transcript ELSE @,
        !.extracted_data = IF Truthy(req.extracted_data) THEN req.extracted_data ELSE @,
        !.description = IF Truthy(req.description) THEN req.description ELSE @,
        !.updatedAt = now]

\* Non-empty values of the three fields of a POST /tickets body.
Transcripts == {"a", "b"}
ExtractedData == {"x"}
Descriptions == {"c"}

TicketsBodies ==
    [ticket_id : TicketIds \cup {Undefined},
     transcript : {Undefined} \cup Transcripts,
     extracted_data : {Undefined} \cup ExtractedData,
     description : {Undefined, ""} \cup Descriptions]

\* The uploads the ticket-store specification draws from.
StoreUploadBodies ==
    [files : {<<>>, <<[mimetype |-> "image/png", oversize |-> FALSE]>>},
     type : {"id_card"},
     typeFirst : {TRUE},
     ticket_id : TicketIds \cup {Undefined}]

\* app.post('/tickets')
PostTickets(req, readOk, writeOk) ==
    /\ IF ~Truthy(req.ticket_id)
       THEN /\ res' = [route |-> "POST /tickets", id |-> req.ticket_id, auth |-> NoHeader, status |-> 400,
                       message |-> "Ticket ID is required"]
            /\ UNCHANGED <<now, dataFile>>
       ELSE LET ticketsData == FindOrCreate(readTicketsData(readOk), req.ticket_id)
                i == FindTicket(ticketsData, req.ticket_id)
                ticket == UpdateTicket(ticketsData[i], req)
            IN  /\ Len(ticketsData) <= MaxTickets
                /\ ClockRead
                /\ dataFile' = writeTicketsData([ticketsData EXCEPT ![i] = ticket], writeOk)
                /\ res' = [route |-> "POST /tickets", id |-> req.ticket_id, auth |-> NoHeader, status |-> 200,
                           message |-> "Ticket saved successfully"]
    /\ UNCHANGED <<nextUuid, disk, dbVars, sttVars, clientVars>>

\* allowedTypes of fileFilter.
AllowedTypes ==
    {"image/jpeg", "image/jpg", "image/png", "image/webp", "image/heic", "application/pdf"}

\* subfolders / typeFolderMap: the folder of a declared type.
TypeFolder(type) ==
    CASE type = "accident_photos" -> "accident_photos"
      [] type \in {"id_card", "id_cards"} -> "id_cards"
      [] type \in {"driving_license", "driving_licenses"} -> "driving_licenses"
      [] type \in {"vehicle_registration", "vehicle_registrations"} -> "vehicle_registrations"
      [] OTHER -> "accident_photos"

\* storage.destination: req.body.type holds the 'type' field only when that
\* field preceded the file in the multipart body.
Destination(req) ==
    TypeFolder(IF req.typeFirst /\ Truthy(req.type) THEN req.type ELSE "accident_photos")

\* Mutant: multer without file filter and size limit.
MulterVerdictBug(files) == "ok"

\* multer's verdict on the files of a request, in arrival order: the first
\* file the filter refuses or the size limit cuts off fails the request.
RECURSIVE MulterVerdict(_)
MulterVerdict(files) ==
    IF files = <<>> THEN "ok"
    ELSE IF Head(files).mimetype \notin AllowedTypes THEN "filter"
    ELSE IF Head(files).oversize THEN "LIMIT_FILE_SIZE"
    ELSE MulterVerdict(Tail(files))

UploadFiles == [mimetype : {"image/png", "text/plain"}, oversize : BOOLEAN]

UploadBodies ==
    [files : {<<>>} \cup {<<f>> : f \in UploadFiles}
                    \cup {<<f, g>> : f \in {[mimetype |-> "image/png", oversize |-> FALSE]},
                                     g \in UploadFiles},
     type : {Undefined, "id_cards", "driving_license", "vehicle_registration", "passport"},
     typeFirst : BOOLEAN,
     ticket_id : TicketIds \cup {Undefined}]

\* The record the handler builds for the k-th file of the request.
UploadedFile(req, k) ==
    LET type == IF Truthy(req.type) THEN req.type ELSE "accident_photos"
    IN  [filename |-> nextUuid + k - 1,
         folder |-> TypeFolder(type),
         type |-> type,
         mimetype |-> req.files[k].mimetype,
         uploadedAt |-> now]

\* Mutant: the handler leaves the file where multer stored it.
FileOnDiskBug(req, k, moveOk) == <<Destination(req), UploadedFile(req, k).filename>>

\* Where the k-th file is after the handler's renameSync (a failed rename is
\* caught and leaves the file where multer stored it).
FileOnDisk(req, k, moveOk) ==
    <<IF moveOk THEN UploadedFile(req, k).folder ELSE Destination(req),
      UploadedFile(req, k).filename>>

\* upload.array('files', 10) followed by app.post('/upload')
\* and, when multer fails, by the error-handling middleware.
Upload(req, readOk, writeOk, moveOk) ==
    LET n == Len(req.files)
        filesOfRequest == [k \in 1..n |-> UploadedFile(req, k)]
    IN
    /\ CASE MulterVerdict(req.files) = "filter" ->
              /\ res' = [route |-> "POST /upload", req |-> req, id |-> req.ticket_id, auth |-> NoHeader, status |-> 500,
                         message |-> "Invalid file type. Only images and PDF files are allowed."]
              /\ UNCHANGED <<now, storeVars, sttVars, clientVars, dbVars>>
         [] MulterVerdict(req.files) = "LIMIT_FILE_SIZE" ->
              /\ res' = [route |-> "POST /upload", req |-> req, id |-> req.ticket_id, auth |-> NoHeader, status |-> 400,
                         message |-> "File too large. Maximum size is 10MB"]
              /\ UNCHANGED <<now, storeVars, sttVars, clientVars, dbVars>>
         [] MulterVerdict(req.files) = "ok" /\ n = 0 ->
              /\ res' = [route |-> "POST /upload", req |-> req, id |-> req.ticket_id, auth |-> NoHeader, status |-> 400,
                         message |-> "No files uploaded"]
              /\ UNCHANGED <<now, storeVars, sttVars, clientVars, dbVars>>
         [] OTHER ->
              /\ nextUuid + n - 1 <= MaxUploads
              /\ ClockRead
              /\ nextUuid' = nextUuid + n
              /\ disk' = disk \cup {FileOnDisk(req, k, moveOk) : k \in 1..n}
              /\ IF Truthy(req.ticket_id)
                 THEN LET ticketsData == FindOrCreate(readTicketsData(readOk), req.ticket_id)
                          i == FindTicket(ticketsData, req.ticket_id)
                          ticket == [ticketsData[i] EXCEPT
                                        !.uploads = @ \o filesOfRequest,
                                        !.updatedAt = now]
                      IN  /\ Len(ticketsData) <= MaxTickets
                          /\ dataFile' =
                                writeTicketsData([ticketsData EXCEPT ![i] = ticket], writeOk)
                 ELSE UNCHANGED dataFile
              /\ res' = [route |-> "POST /upload", req |-> req, id |-> req.ticket_id, auth |-> NoHeader, status |-> 200,
                         message |-> "file(s) uploaded successfully"]
    /\ UNCHANGED <<dbVars, sttVars, clientVars>>

\* The JSON that answers POST /upload: the uploaded files with their urls when
\* the request is accepted, success false and a message otherwise.
UploadResponse(req) ==
    CASE MulterVerdict(req.files) = "filter" ->
            [status |-> 500, success |-> FALSE,
             message |-> "Invalid file type. Only images and PDF files are allowed."]
      [] MulterVerdict(req.files) = "LIMIT_FILE_SIZE" ->
            [status |-> 400, success |-> FALSE,
             message |-> "File too large. Maximum size is 10MB"]
      [] MulterVerdict(req.files) = "ok" /\ req.files = <<>> ->
            [status |-> 400, success |-> FALSE, message |-> "No files uploaded"]
      [] OTHER ->
            [status |-> 200, success |-> TRUE, message |-> "file(s) uploaded successfully",
             files |-> [k \in 1..Len(req.files) |->
                           [filename |-> UploadedFile(req, k).filename,
                            url |-> <<"uploads", UploadedFile(req, k).folder,
                                      UploadedFile(req, k).filename>>,
                            type |-> UploadedFile(req, k).type]]]

\* app.get('/tickets'): the response computed from the data file.
GetTicketsResponse(readOk) ==
    [route |-> "GET /tickets", status |-> 200, success |-> TRUE,
     tickets |-> readTicketsData(readOk)]

GetTickets(readOk) ==
    /\ res' = [route |-> "GET /tickets", id |-> Undefined, auth |-> NoHeader,
               status |-> GetTicketsResponse(readOk).status, message |-> ""]
    /\ UNCHANGED <<now, storeVars, sttVars, clientVars, dbVars>>

\* app.get('/tickets/:id'): the response computed from the data file.
GetTicketResponse(id, readOk) ==
    LET tks == readTicketsData(readOk)
        i == FindTicket(tks, id)
    IN  IF i = 0
        THEN [route |-> "GET /tickets/:id", id |-> id, status |-> 404,
              success |-> FALSE, message |-> "Ticket not found"]
        ELSE [route |-> "GET /tickets/:id", id |-> id, status |-> 200,
              success |-> TRUE, message |-> "", ticket |-> tks[i]]

GetTicket(id, readOk) ==
    /\ res' = [route |-> "GET /tickets/:id", id |-> id, auth |-> NoHeader,
               status |-> GetTicketResponse(id, readOk).status,
               message |-> GetTicketResponse(id, readOk).message]
    /\ UNCHANGED <<now, storeVars, sttVars, clientVars, dbVars>>

(***************************************************************************)
(* SQLite backend: schema, JWT middleware and the /api routes.             *)
(***************************************************************************)

\* SQL NULL.
Null == "null"

\* JWT_SECRET, when the environment sets none.
JWT_SECRET == "supersecret"

\* bcrypt.hash(password, 10)
bcryptHash(password) == <<"bcrypt", password>>

\* The admin user of init-db: admin / 1234.
AdminUser ==
    [id |-> "u1", username |-> "admin", role |-> "admin",
     password_hash |-> bcryptHash("1234"), last_login |-> Null]

\* The tables as initializeDatabase() creates them and init-db leaves them:
\* one admin user, no tickets.
InitDbVars ==
    /\ users = <<AdminUser>>
    /\ tickets = <<>>
    /\ attachments = <<>>
    /\ conversations = <<>>
    /\ findings = <<>>
    /\ audio_files = <<>>
    /\ audioDir = 0

\* Mutant: the foreign_keys pragma is never switched on.
ForeignKeysOff == FALSE

\* db.pragma('foreign_keys = ON')
ForeignKeys == TRUE

HasTicket(tbl, ticketId) == \E i \in 1..Len(tbl) : tbl[i].ticket_id = ticketId

\* The code of the SqliteError an INSERT INTO tickets raises, "" when the row
\* is accepted: ticket_id is UNIQUE NOT NULL and user_id REFERENCES users(id).
\* better-sqlite3 reports SQLite's extended result codes.
InsertTicketError(row) ==
    IF HasTicket(tickets, row.ticket_id) THEN "SQLITE_CONSTRAINT_UNIQUE"
    ELSE IF ForeignKeys /\ row.user_id # Null
            /\ ~ \E i \in 1..Len(users) : users[i].id = row.user_id
         THEN "SQLITE_CONSTRAINT_FOREIGNKEY"
    ELSE ""

\* The code of the SqliteError an INSERT into a table whose ticket_id
\* REFERENCES tickets(ticket_id) raises given the tickets rows tks, "" when
\* the row is accepted.
InsertChildError(tks, row) ==
    IF ForeignKeys /\ ~HasTicket(tks, row.ticket_id)
    THEN "SQLITE_CONSTRAINT_FOREIGNKEY"
    ELSE ""

\* A table without the rows of ticket ticketId.
RECURSIVE WithoutTicket(_, _)
WithoutTicket(tbl, ticketId) ==
    IF tbl = <<>> THEN <<>>
    ELSE IF Head(tbl).ticket_id = ticketId THEN WithoutTicket(Tail(tbl), ticketId)
    ELSE <<Head(tbl)>> \o WithoutTicket(Tail(tbl), ticketId)

\* ON DELETE CASCADE: a child table after DELETE FROM tickets WHERE ticket_id = ?
Cascade(tbl, ticketId) == IF ForeignKeys THEN WithoutTicket(tbl, ticketId) ELSE tbl

ChildRows == Len(attachments) + Len(conversations) + Len(findings) + Len(audio_files)

\* Authorization headers of the requests: none, "Bearer" with nothing after
\* it, and "Bearer <jwt>" for tokens signed with the server's secret or
\* another one, expired or not.
Jwts ==
    [role : {"admin", "user"}, secret : {JWT_SECRET}, expired : {FALSE}]
    \cup {[role |-> "admin", secret |-> "forged", expired |-> FALSE],
          [role |-> "admin", secret |-> JWT_SECRET, expired |-> TRUE]}

AuthHeaders ==
    {NoHeader, [authorization |-> "Bearer"]}
    \cup {[authorization |-> "Bearer", token |-> jwt] : jwt \in Jwts}

\* req.headers['authorization']?.split(' ')[1]: the token as a sequence of
\* at most one element, empty for undefined.
BearerToken(header) ==
    IF "token" \in DOMAIN header THEN <<header.token>> ELSE <<>>

\* jwt.verify(token, JWT_SECRET) returns the payload rather than throwing.
JwtVerifies(token) == token.secret = JWT_SECRET /\ ~token.expired

\* Mutant: the middleware calls next() whatever jwt.verify says.
verifyTokenBug(header) ==
    IF BearerToken(header) = <<>>
    THEN [next |-> FALSE, status |-> 401, message |-> "No token provided"]
    ELSE [next |-> TRUE, user |-> [role |-> BearerToken(header)[1].role]]

\* verifyToken(req, res, next): whether next() is called, with req.user, or
\* the 401 it answers.
verifyToken(header) ==
    IF BearerToken(header) = <<>>
    THEN [next |-> FALSE, status |-> 401, message |-> "No token provided"]
    ELSE IF JwtVerifies(BearerToken(header)[1])
         THEN [next |-> TRUE, user |-> [role |-> BearerToken(header)[1].role]]
         ELSE [next |-> FALSE, status |-> 401, message |-> "Invalid token"]

\* The answer to a request that carried the Authorization header given.
RespondTo(header, route, status, message) ==
    [route |-> route, id |-> Undefined, auth |-> header, status |-> status,
     message |-> message]

Respond(route, status, message) == RespondTo(NoHeader, route, status, message)

\* The 401 of verifyToken; nothing else happens.
Unauthorized(route, header) ==
    /\ res' = RespondTo(header, route, verifyToken(header).status, verifyToken(header).message)
    /\ UNCHANGED <<now, storeVars, sttVars, clientVars, dbVars>>

\* router.get('/') behind verifyToken: the JSON it answers.
ApiGetTicketsResponse(header) ==
    IF ~verifyToken(header).next
    THEN [status |-> verifyToken(header).status, success |-> FALSE,
          message |-> verifyToken(header).message]
    ELSE [status |-> 200, success |-> TRUE, message |-> "",
          tickets |-> [i \in 1..Len(tickets) |->
                          [ticket |-> tickets[Len(tickets) + 1 - i],
                           attachments |-> SelectSeq(attachments,
                               LAMBDA a : a.ticket_id = tickets[Len(tickets) + 1 - i].ticket_id)]]]

ApiGetTickets(header) ==
    /\ res' = RespondTo(header, "GET /api/tickets", ApiGetTicketsResponse(header).status,
                      ApiGetTicketsResponse(header).message)
    /\ UNCHANGED <<now, storeVars, sttVars, clientVars, dbVars>>

\* router.get('/:ticketId') behind verifyToken: the JSON it answers.
ApiGetTicketResponse(header, ticketId) ==
    IF ~verifyToken(header).next
    THEN [status |-> verifyToken(header).status, success |-> FALSE,
          message |-> verifyToken(header).message]
    ELSE IF ~HasTicket(tickets, ticketId)
    THEN [status |-> 404, success |-> FALSE, message |-> "Ticket not found"]
    ELSE [status |-> 200, success |-> TRUE, message |-> "",
          ticket |-> SelectSeq(tickets, LAMBDA t : t.ticket_id = ticketId)[1],
          conversations |-> SelectSeq(conversations, LAMBDA c : c.ticket_id = ticketId),
          findings |-> SelectSeq(findings, LAMBDA f : f.ticket_id = ticketId),
          audioFiles |-> SelectSeq(audio_files, LAMBDA a : a.ticket_id = ticketId),
          attachments |-> SelectSeq(attachments, LAMBDA a : a.ticket_id = ticketId)]

ApiGetTicket(header, ticketId) ==
    /\ res' = RespondTo(header, "GET /api/tickets/:ticketId",
                      ApiGetTicketResponse(header, ticketId).status,
                      ApiGetTicketResponse(header, ticketId).message)
    /\ UNCHANGED <<now, storeVars, sttVars, clientVars, dbVars>>

\* One attachment of a POST /api/tickets body; an attachment without
\* filename cannot be bound and its INSERT throws. A body without attachments
\* is handled as one with the empty array.
ApiAttachments == [filename : {"a.jpg", Undefined}, type : {"id_card"}]

ApiTicketBodies ==
    [ticket_id : TicketIds \cup {Undefined},
     user_id : {Undefined, "u7"},
     damage : {"dent"},
     attachments : {<<>>} \cup {<<a>> : a \in ApiAttachments}
                   \cup {<<a, b>> : a \in {[filename |-> Undefined, type |-> "id_card"]},
                                    b \in {[filename |-> "a.jpg", type |-> "id_card"]}}]

\* The attachments rows the for loop inserts: an INSERT that throws is caught
\* and the loop goes on.
RECURSIVE AttachRows(_, _, _)
AttachRows(tks, ticketId, atts) ==
    IF atts = <<>> THEN <<>>
    ELSE LET row == [ticket_id |-> ticketId, filename |-> Head(atts).filename,
                     attachment_type |-> Head(atts).type]
         IN  (IF row.filename = Undefined \/ InsertChildError(tks, row) # ""
              THEN <<>> ELSE <<row>>)
             \o AttachRows(tks, ticketId, Tail(atts))

\* router.post('/')
ApiPostTicket(req) ==
    LET row == [ticket_id |-> req.ticket_id,
                user_id |-> IF req.user_id = Undefined THEN Null ELSE req.user_id,
                plate |-> Null, vehicles |-> 1,
                damage |-> IF Truthy(req.damage) THEN req.damage ELSE Null,
                status |-> "open"]
        code == InsertTicketError(row)
        inserted == AttachRows(Append(tickets, row), req.ticket_id, req.attachments)
    IN
    /\ IF ~Truthy(req.ticket_id)
       THEN /\ res' = Respond("POST /api/tickets", 400, "Ticket ID is required")
            /\ UNCHANGED <<tickets, attachments>>
       ELSE IF code = "SQLITE_CONSTRAINT"
       THEN /\ res' = Respond("POST /api/tickets", 409, "Ticket ID already exists")
            /\ UNCHANGED <<tickets, attachments>>
       ELSE IF code # ""
       THEN /\ res' = Respond("POST /api/tickets", 500, "Error creating ticket")
            /\ UNCHANGED <<tickets, attachments>>
       ELSE /\ Len(tickets) < MaxTicketRows
            /\ ChildRows + Len(inserted) <= MaxChildRows
            /\ tickets' = Append(tickets, row)
            /\ attachments' = attachments \o inserted
            /\ res' = Respond("POST /api/tickets", 201, "Ticket created successfully")
    /\ UNCHANGED <<now, storeVars, sttVars, clientVars, users, conversations, findings, audio_files, audioDir>>

\* COALESCE(?, column)
Coalesce(x, y) == IF x = Null THEN y ELSE x

ApiPutBodies == [damage : {Null}, status : {Null, "closed"}]

\* router.put('/:ticketId') behind verifyToken
ApiPutTicket(header, ticketId, body) ==
    IF ~verifyToken(header).next
    THEN Unauthorized("PUT /api/tickets/:ticketId", header)
    ELSE
    /\ IF ~HasTicket(tickets, ticketId)
       THEN /\ res' = RespondTo(header, "PUT /api/tickets/:ticketId", 404, "Ticket not found")
            /\ UNCHANGED tickets
       ELSE /\ tickets' = [i \in 1..Len(tickets) |->
                            IF tickets[i].ticket_id = ticketId
                            THEN [tickets[i] EXCEPT
                                    !.damage = Coalesce(body.damage, @),
                                    !.status = Coalesce(body.status, @)]
                            ELSE tickets[i]]
            /\ res' = RespondTo(header, "PUT /api/tickets/:ticketId", 200, "Ticket updated successfully")
    /\ UNCHANGED <<now, storeVars, sttVars, clientVars, users, childTables, audioDir>>

\* Mutant: the role check of the DELETE handler is missing.
IsAdminBug(user) == TRUE

\* req.user.role !== 'admin' is false
IsAdmin(user) == user.role = "admin"

\* router.delete('/:ticketId') behind verifyToken
ApiDeleteTicket(header, ticketId) ==
    IF ~verifyToken(header).next
    THEN Unauthorized("DELETE /api/tickets/:ticketId", header)
    ELSE
    /\ IF ~IsAdmin(verifyToken(header).user)
       THEN /\ res' = RespondTo(header, "DELETE /api/tickets/:ticketId", 403, "Admin access required")
            /\ UNCHANGED <<tickets, childTables>>
       ELSE IF ~HasTicket(tickets, ticketId)
       THEN /\ res' = RespondTo(header, "DELETE /api/tickets/:ticketId", 404, "Ticket not found")
            /\ UNCHANGED <<tickets, childTables>>
       ELSE /\ tickets' = WithoutTicket(tickets, ticketId)
            /\ attachments' = Cascade(attachments, ticketId)
            /\ conversations' = Cascade(conversations, ticketId)
            /\ findings' = Cascade(findings, ticketId)
            /\ audio_files' = Cascade(audio_files, ticketId)
            /\ res' = RespondTo(header, "DELETE /api/tickets/:ticketId", 200, "Ticket deleted successfully")
    /\ UNCHANGED <<now, storeVars, sttVars, clientVars, users, audioDir>>

ConversationBodies == [role : {Undefined, "user"}, content : {"hello"}]

\* router.post('/:ticketId/conversations')
ApiAddConversation(ticketId, body) ==
    LET row == [ticket_id |-> ticketId, role |-> body.role, content |-> body.content]
    IN
    /\ IF ~Truthy(body.role) \/ ~Truthy(body.content)
       THEN /\ res' = Respond("POST /api/tickets/:ticketId/conversations", 400,
                              "Role and content are required")
            /\ UNCHANGED conversations
       ELSE IF InsertChildError(tickets, row) # ""
       THEN /\ res' = Respond("POST /api/tickets/:ticketId/conversations", 500,
                              "Error adding conversation")
            /\ UNCHANGED conversations
       ELSE /\ ChildRows < MaxChildRows
            /\ conversations' = Append(conversations, row)
            /\ res' = Respond("POST /api/tickets/:ticketId/conversations", 201,
                              "Conversation added successfully")
    /\ UNCHANGED <<now, storeVars, sttVars, clientVars, users, tickets, attachments, findings, audio_files, audioDir>>

FindingBodies == [field_name : {Undefined, "plate"}]

\* router.post('/:ticketId/findings')
ApiAddFinding(ticketId, body) ==
    LET row == [ticket_id |-> ticketId, field_name |-> body.field_name, source |-> "manual"]
    IN
    /\ IF ~Truthy(body.field_name)
       THEN /\ res' = Respond("POST /api/tickets/:ticketId/findings", 400,
                              "Field name is required")
            /\ UNCHANGED findings
       ELSE IF InsertChildError(tickets, row) # ""
       THEN /\ res' = Respond("POST /api/tickets/:ticketId/findings", 500,
                              "Error adding finding")
            /\ UNCHANGED findings
       ELSE /\ ChildRows < MaxChildRows
            /\ findings' = Append(findings, row)
            /\ res' = Respond("POST /api/tickets/:ticketId/findings", 201,
                              "Finding added successfully")
    /\ UNCHANGED <<now, storeVars, sttVars, clientVars, users, tickets, attachments, conversations, audio_files,
                   audioDir>>

\* allowedTypes of the audio upload's fileFilter.
AllowedAudioTypes == {"audio/webm", "audio/wav", "audio/mp3", "audio/mpeg", "audio/ogg"}

AudioBodies ==
    [mimetype : {Undefined, "audio/webm", "video/mp4"}, ticket_id : TicketIds \cup {Undefined}]

\* upload.single('audio') followed by router.post('/audio'); the file multer
\* stored is unlinked when the INSERT throws, which leaves the directory as
\* it was.
ApiUploadAudio(req) ==
    LET row == [ticket_id |-> req.ticket_id, file_path |-> audioDir + 1,
                file_type |-> req.mimetype]
    IN
    /\ IF req.mimetype = Undefined
       THEN /\ res' = Respond("POST /api/upload/audio", 400, "No audio file provided")
            /\ UNCHANGED <<audio_files, audioDir>>
       ELSE IF req.mimetype \notin AllowedAudioTypes
       THEN /\ res' = Respond("POST /api/upload/audio", 500,
                              "Invalid file type. Only audio files are allowed.")
            /\ UNCHANGED <<audio_files, audioDir>>
       ELSE IF ~Truthy(req.ticket_id)
       THEN /\ audioDir < MaxChildRows
            /\ audioDir' = audioDir + 1
            /\ res' = Respond("POST /api/upload/audio", 200, "Audio uploaded successfully")
            /\ UNCHANGED audio_files
       ELSE IF InsertChildError(tickets, row) # ""
       THEN /\ res' = Respond("POST /api/upload/audio", 500, "FOREIGN KEY constraint failed")
            /\ UNCHANGED <<audio_files, audioDir>>
       ELSE /\ audioDir < MaxChildRows
            /\ ChildRows < MaxChildRows
            /\ audioDir' = audioDir + 1
            /\ audio_files' = Append(audio_files, row)
            /\ res' = Respond("POST /api/upload/audio", 200, "Audio uploaded successfully")
    /\ UNCHANGED <<now, storeVars, sttVars, clientVars, users, tickets, attachments, conversations, findings>>

(***************************************************************************)
(* SQLite backend: the /api/auth routes.                                   *)
(***************************************************************************)

\* Mutant: a password check that accepts every password.
bcryptCompareBug(password, hash) == TRUE

\* bcrypt.compare(password, user.password_hash)
bcryptCompare(password, hash) == hash = bcryptHash(password)

\* req.body of POST /api/auth/login.
LoginBodies ==
    [username : {Undefined, "", "admin", "guest", "nobody"},
     password : {Undefined, "", "1234", "guest1"}]

\* db.prepare('SELECT * FROM users WHERE username = ?').get(username): the
\* positions of the rows found (username is UNIQUE).
UsersNamed(username) == {i \in 1..Len(users) : users[i].username = username}

\* router.post('/login'): the JSON it answers.
ApiLoginResponse(body) ==
    IF ~Truthy(body.username) \/ ~Truthy(body.password)
    THEN [status |-> 400, success |-> FALSE,
          message |-> "Username and password are required"]
    ELSE IF UsersNamed(body.username) = {}
    THEN [status |-> 401, success |-> FALSE, message |-> "Invalid username or password"]
    ELSE LET user == users[CHOOSE i \in UsersNamed(body.username) : TRUE]
         IN  IF ~bcryptCompare(body.password, user.password_hash)
             THEN [status |-> 401, success |-> FALSE,
                   message |-> "Invalid username or password"]
             ELSE [status |-> 200, success |-> TRUE, message |-> "Login successful",
                   token |-> [role |-> user.role, secret |-> JWT_SECRET, expired |-> FALSE],
                   user |-> [id |-> user.id, username |-> user.username,
                             role |-> user.role]]

\* router.post('/login'): a login that succeeds stamps last_login.
ApiLogin(body) ==
    /\ res' = Respond("POST /api/auth/login", ApiLoginResponse(body).status,
                      ApiLoginResponse(body).message)
    /\ IF ApiLoginResponse(body).status = 200
       THEN /\ ClockRead
            /\ users' = [i \in 1..Len(users) |->
                            IF i \in UsersNamed(body.username)
                            THEN [users[i] EXCEPT !.last_login = ToString(now')]
                            ELSE users[i]]
       ELSE UNCHANGED <<now, users>>
    /\ UNCHANGED <<storeVars, sttVars, clientVars, tickets, childTables, audioDir>>

\* router.get('/verify') behind verifyToken.
ApiVerify(header) ==
    /\ res' = IF verifyToken(header).next
              THEN RespondTo(header, "GET /api/auth/verify", 200, "")
              ELSE RespondTo(header, "GET /api/auth/verify", verifyToken(header).status,
                             verifyToken(header).message)
    /\ UNCHANGED <<now, storeVars, sttVars, clientVars, dbVars>>

\* router.post('/logout')
ApiLogout ==
    /\ res' = Respond("POST /api/auth/logout", 200, "Logout successful")
    /\ UNCHANGED <<now, storeVars, sttVars, clientVars, dbVars>>

(***************************************************************************)
(* Chat client: the text of an LLM response.                               *)
(*                                                                         *)
(* A message is a sequence of tokens, each standing for a run of           *)
(* characters the regular expressions of app.js cannot split:              *)
(*   "w"  a word of prose (no brace, no backtick, no quote)                *)
(*   "s"  white space                                                      *)
(*   "F"  the fence ```                                                    *)
(*   "J"  the letters json                                                 *)
(*   "{", "}", ","                                                         *)
(*   "Pa", "Pi", "Ps", "Pd", "Pe"  the member "phase": "accident_photos",  *)
(*        "phase": "id_card", "phase": "summary", "phase": "done",         *)
(*        "phase": ""                                                      *)
(*   "T"  the key "ticket": , to be followed by an object                  *)
(*   "K"  any other member, such as "description": "x"                     *)
(***************************************************************************)
PhaseTokens == {"Pa", "Pi", "Ps", "Pd", "Pe"}

\* The string value of a "phase" member.
PhaseOf(tok) ==
    CASE tok = "Pa" -> "accident_photos"
      [] tok = "Pi" -> "id_card"
      [] tok = "Ps" -> "summary"
      [] tok = "Pd" -> "done"
      [] tok = "Pe" -> ""

Min(S) == CHOOSE x \in S : \A y \in S : x <= y

Max(S) == CHOOSE x \in S : \A y \in S : x >= y

\* The positions of str at which one of the tokens of toks stands.
Positions(str, toks) == {i \in 1..Len(str) : str[i] \in toks}

\* String.prototype.trim()
RECURSIVE trim(_)
trim(str) ==
    IF str = <<>> THEN str
    ELSE IF Head(str) = "s" THEN trim(Tail(str))
    ELSE IF str[Len(str)] = "s" THEN trim(SubSeq(str, 1, Len(str) - 1))
    ELSE str

\* The part of str before position i, and the part after position j.
Before(str, i) == SubSeq(str, 1, i - 1)

After(str, j) == SubSeq(str, j + 1, Len(str))

\* str.replace(/```json[\s\S]*?```/g, '')
RECURSIVE ReplaceJsonFences(_)
ReplaceJsonFences(str) ==
    LET opens == {i \in Positions(str, {"F"}) :
                     /\ i < Len(str) /\ str[i + 1] = "J"
                     /\ \E j \in Positions(str, {"F"}) : j > i + 1}
    IN  IF opens = {} THEN str
        ELSE LET i == Min(opens)
                 j == Min({k \in Positions(str, {"F"}) : k > i + 1})
             IN  Before(str, i) \o ReplaceJsonFences(After(str, j))

\* str.replace(/```[\s\S]*?```/g, '')
RECURSIVE ReplaceFences(_)
ReplaceFences(str) ==
    LET opens == {i \in Positions(str, {"F"}) :
                     \E j \in Positions(str, {"F"}) : j > i}
    IN  IF opens = {} THEN str
        ELSE LET i == Min(opens)
                 j == Min({k \in Positions(str, {"F"}) : k > i})
             IN  Before(str, i) \o ReplaceFences(After(str, j))

\* str.replace(/\{[\s\S]*?"phase"[\s\S]*?\}/g, ''): both quantifiers are lazy,
\* so a match runs from a brace to the first "phase" after it and from there
\* to the first closing brace.
RECURSIVE ReplacePhaseObjects(_)
ReplacePhaseObjects(str) ==
    LET Ends(i) == {q \in Positions(str, {"}"}) :
                       \E p \in Positions(str, PhaseTokens) : i < p /\ p < q}
        opens == {i \in Positions(str, {"{"}) : Ends(i) # {}}
    IN  IF opens = {} THEN str
        ELSE LET i == Min(opens)
             IN  Before(str, i) \o ReplacePhaseObjects(After(str, Min(Ends(i))))

\* extractMessageText(fullMessage)
extractMessageText(fullMessage) ==
    trim(ReplacePhaseObjects(trim(ReplaceFences(trim(ReplaceJsonFences(fullMessage))))))

\* cleanMessageText(text) of the admin panel
cleanMessageText(text) ==
    IF text = <<>> THEN <<>>
    ELSE trim(ReplacePhaseObjects(trim(ReplaceFences(trim(ReplaceJsonFences(text))))))

\* A JavaScript object read from JSON: its phase and its ticket, each a
\* sequence that is empty when the object has no such key, and the number of
\* its other members.
EmptyObject == [phase |-> <<>>, ticket |-> <<>>, others |-> 0]

SyntaxError == [ok |-> FALSE, next |-> 0, val |-> EmptyObject]

\* JSON.parse of the object that starts at token i of str (white space
\* removed): the object and the position after it, or a SyntaxError.
RECURSIVE ParseObject(_, _), ParseMembers(_, _, _)
ParseObject(str, i) ==
    IF i > Len(str) \/ str[i] # "{" THEN SyntaxError
    ELSE IF i < Len(str) /\ str[i + 1] = "}"
         THEN [ok |-> TRUE, next |-> i + 2, val |-> EmptyObject]
         ELSE ParseMembers(str, i + 1, EmptyObject)

ParseMembers(str, i, obj) ==
    IF i > Len(str) THEN SyntaxError
    ELSE LET sub == ParseObject(str, i + 1)
             member ==
                 CASE str[i] \in PhaseTokens ->
                        [ok |-> TRUE, next |-> i + 1,
                         val |-> [obj EXCEPT !.phase = <<PhaseOf(str[i])>>]]
                   [] str[i] = "K" ->
                        [ok |-> TRUE, next |-> i + 1,
                         val |-> [obj EXCEPT !.others = @ + 1]]
                   [] str[i] = "T" ->
                        IF sub.ok
                        THEN [ok |-> TRUE, next |-> sub.next,
                              val |-> [obj EXCEPT !.ticket = <<sub.val>>]]
                        ELSE SyntaxError
                   [] OTHER -> SyntaxError
         IN  IF ~member.ok \/ member.next > Len(str) THEN SyntaxError
             ELSE IF str[member.next] = ","
                  THEN ParseMembers(str, member.next + 1, member.val)
             ELSE IF str[member.next] = "}"
                  THEN [ok |-> TRUE, next |-> member.next + 1, val |-> member.val]
             ELSE SyntaxError

\* JSON.parse(jsonStr): the whole string must be one object.
JSONparse(jsonStr) ==
    LET str == SelectSeq(jsonStr, LAMBDA tok : tok # "s")
        parsed == ParseObject(str, 1)
    IN  IF parsed.ok /\ parsed.next = Len(str) + 1 THEN parsed ELSE SyntaxError

\* message.match(/\{[\s\S]*"phase"[\s\S]*\}/): both quantifiers are greedy, so
\* the match runs from the first brace that has "phase" and a closing brace
\* after it to the last closing brace of the message.  Empty without match.
MatchState(message) ==
    LET closes == Positions(message, {"}"})
        opens == {i \in Positions(message, {"{"}) :
                     \E p \in Positions(message, PhaseTokens), q \in closes :
                         i < p /\ p < q}
    IN  IF opens = {} THEN <<>>
        ELSE SubSeq(message, Min(opens), Max(closes))

\* parseLLMState(message): <<state>>, or <<>> for null.
parseLLMState(message) ==
    LET jsonStr == MatchState(message)
    IN  IF jsonStr = <<>> THEN <<>>
        ELSE IF JSONparse(jsonStr).ok THEN <<JSONparse(jsonStr).val>>
        ELSE <<>>

(***************************************************************************)
(* Chat client: app.js.  The client runs one callback at a time; a call of *)
(* an async function is suspended at each await on the network, and the    *)
(* callbacks of other events run in between.  An await on response.json()  *)
(* is taken together with the fetch before it: nothing of the client is    *)
(* read or written between the two.                                        *)
(***************************************************************************)

\* validUploadPhases of handleImageUpload, uploadPhases of updateUIForPhase
validUploadPhases == {"accident_photos", "id_card", "driving_license", "vehicle_registration"}

\* Mutant: handleImageUpload without the phase check.
InUploadPhaseBug(phase) == TRUE

\* validUploadPhases.includes(currentPhase)
InUploadPhase(phase) == phase \in validUploadPhases

\* { role: 'system', content: CONFIG.PROMPTS.CHAT_SYSTEM }
SystemPrompt == [role |-> "system", content |-> <<"w", "s", "w", "s", "w">>]

\* What the user types, already trimmed; the empty message is not sent.
UserMessages == {<<>>, <<"w">>}

\* uploadNotification
UploadNotification == [role |-> "user", content |-> <<"w", "s", "w">>]

InitVoiceVars ==
    /\ voiceEnabled = FALSE
    /\ mediaRecorder = <<>>
    /\ recorders = <<>>
    /\ recordingTimer = <<>>
    /\ timers = {}
    /\ recordingSeconds = 0
    /\ isRecording = FALSE
    /\ micRequests = 0
    /\ transcriptions = 0
    /\ ttsCalls = 0
    /\ currentAudio = <<>>
    /\ audios = <<>>
    /\ speeches = <<>>

\* The bubble addMessage(sender, text) appends to chatMessages.
Bubble(sender, text) == [sender |-> sender, text |-> text]

\* chatMessages.innerHTML = ''
NoBubble == Bubble("none", <<>>)

\* uploadedFiles as declared: no photo, no document (null is the empty sequence).
NoUploadedFiles ==
    [accident_photos |-> <<>>, id_card |-> <<>>, driving_license |-> <<>>,
     vehicle_registration |-> <<>>]

\* The globals of app.js as the script declares them.
InitChatVars ==
    /\ page = "landingPage"
    /\ chatHistory = <<>>
    /\ currentTicket = <<>>
    /\ currentPhase = "greeting"
    /\ ticketData = EmptyObject
    /\ ticketAlreadyCreated = FALSE
    /\ uploadedFiles = NoUploadedFiles
    /\ clientTickets = <<>>
    /\ chatMessages = NoBubble
    /\ calls = <<>>
    /\ readers = <<>>
    /\ imageUploads = <<>>
    /\ transcriptHtml = <<>>

\* seq without its element i.
Remove(seq, i) == SubSeq(seq, 1, i - 1) \o SubSeq(seq, i + 1, Len(seq))

\* validateConfig(): the API key is configured.
validateConfig == TRUE

\* "Play TTS if voice is enabled" at the end of getAIResponse():
\* speakAssistantMessage() up to its await on textToSpeech().
PlayTTS ==
    IF voiceEnabled
    THEN /\ ttsCalls < MaxTts
         /\ ttsCalls' = ttsCalls + 1
    ELSE UNCHANGED ttsCalls

\* A getAIResponse() call that has sent its chat-completion request.
NewCall == [pc |-> "llm", ticket |-> <<>>]

\* startReport(): showPage('chatPage'), then initChat() up to its await.
startReport ==
    /\ page = "landingPage"
    /\ validateConfig
    /\ Len(calls) < MaxCalls
    /\ page' = "chatPage"
    /\ chatHistory' = <<SystemPrompt>>
    /\ calls' = Append(calls, NewCall)
    /\ UNCHANGED <<serverVars, voiceVars, currentTicket, currentPhase, ticketData,
                   ticketAlreadyCreated, uploadedFiles, clientTickets, chatMessages,
                   readers, imageUploads, transcriptHtml>>

\* goToLanding()
goToLanding ==
    /\ page = "chatPage"
    /\ page' = "landingPage"
    /\ chatHistory' = <<>>
    /\ currentTicket' = <<>>
    /\ currentPhase' = "greeting"
    /\ ticketData' = EmptyObject
    /\ ticketAlreadyCreated' = FALSE
    /\ uploadedFiles' = NoUploadedFiles
    /\ chatMessages' = NoBubble
    /\ voiceEnabled' = FALSE
    /\ UNCHANGED <<serverVars, recordingVars, ttsCalls, audioVars, clientTickets, calls,
                   readers, imageUploads, transcriptHtml>>

\* sendMessage(), up to the await in getAIResponse().
sendMessage(message) ==
    /\ page = "chatPage"
    /\ validateConfig
    /\ IF message = <<>>
       THEN UNCHANGED <<chatMessages, chatHistory, calls>>
       ELSE /\ Len(chatHistory) < MaxHistory
            /\ Len(calls) < MaxCalls
            /\ chatMessages' = Bubble("user", message)
            /\ chatHistory' = Append(chatHistory, [role |-> "user", content |-> message])
            /\ calls' = Append(calls, NewCall)
    /\ UNCHANGED <<serverVars, voiceVars, page, currentTicket, currentPhase, ticketData,
                   ticketAlreadyCreated, uploadedFiles, clientTickets, readers,
                   imageUploads, transcriptHtml>>

\* state && state.phase
HasPhase(state) ==
    /\ state # <<>>
    /\ state[1].phase # <<>>
    /\ Truthy(state[1].phase[1])

\* state.ticket || ticketData
TicketOr(state, data) ==
    IF state[1].ticket # <<>> THEN state[1].ticket[1] ELSE data

\* ticketPayload of createTicketFromLLMData(); ticketId is
\* `T-${Date.now()}-${Math.floor(Math.random() * 1000)}`.
TicketPayload(ticketId) ==
    [ticket_id |-> ticketId, transcript |-> chatHistory',
     extracted_data |-> [ticket |-> ticketData', uploads |-> uploadedFiles]]

\* getAIResponse() from the answer to its chat-completion request on: the
\* request fails or is answered with an error status (ok is FALSE), or it is
\* answered with fullMessage.  With phase 'done' and no ticket created yet the
\* call goes on into createTicketFromLLMData(), up to the await on its fetch.
getAIResponse(i, ok, fullMessage) ==
    /\ i \in 1..Len(calls)
    /\ calls[i].pc = "llm"
    /\ IF ~ok
       THEN /\ chatMessages' = Bubble("system", <<"error">>)
            /\ calls' = Remove(calls, i)
            /\ UNCHANGED <<chatHistory, currentPhase, ticketData, ttsCalls>>
       ELSE LET state == parseLLMState(fullMessage)
                messageText == extractMessageText(fullMessage)
            IN  /\ Len(chatHistory) < MaxHistory
                /\ chatMessages' = Bubble("assistant", messageText)
                /\ chatHistory' = Append(chatHistory,
                                         [role |-> "assistant", content |-> fullMessage])
                /\ IF HasPhase(state)
                   THEN /\ currentPhase' = state[1].phase[1]
                        /\ ticketData' = TicketOr(state, ticketData)
                   ELSE UNCHANGED <<currentPhase, ticketData>>
                /\ IF HasPhase(state) /\ currentPhase' = "done" /\ ~ticketAlreadyCreated
                   THEN /\ \E ticketId \in TicketIds :
                               calls' = [calls EXCEPT ![i] =
                                            [pc |-> "tickets",
                                             ticket |-> <<TicketPayload(ticketId)>>]]
                        /\ UNCHANGED ttsCalls
                   ELSE /\ calls' = Remove(calls, i)
                        /\ PlayTTS
    /\ UNCHANGED <<serverVars, voiceEnabled, recordingVars, audioVars, page, currentTicket, ticketAlreadyCreated, uploadedFiles,
                   clientTickets, readers, imageUploads, transcriptHtml>>

\* The backend answers the POST /tickets request of call i: it accepts the
\* ticket, or the request fails or is answered with an error status.
TicketsResponse(i, ok) ==
    /\ i \in 1..Len(calls)
    /\ calls[i].pc = "tickets"
    /\ calls' = [calls EXCEPT ![i].pc = IF ok THEN "accepted" ELSE "refused"]
    /\ UNCHANGED <<serverVars, voiceVars, page, chatHistory, currentTicket, currentPhase, ticketData,
                   ticketAlreadyCreated, uploadedFiles, clientTickets, chatMessages,
                   readers, imageUploads, transcriptHtml>>

\* createTicketFromLLMData() from the answer to its fetch on, and the rest of
\* getAIResponse() after it.
createTicketFromLLMData(i) ==
    /\ i \in 1..Len(calls)
    /\ calls[i].pc \in {"accepted", "refused"}
    /\ calls' = Remove(calls, i)
    /\ IF calls[i].pc = "accepted"
       THEN /\ Len(clientTickets) < MaxClientTickets
            /\ chatMessages' = Bubble("system", <<"created">>)
            /\ clientTickets' = Append(clientTickets, calls[i].ticket[1].ticket_id)
            /\ currentTicket' = <<calls[i].ticket[1].ticket_id>>
            /\ ticketAlreadyCreated' = TRUE
            /\ currentPhase' = "completed"
       ELSE /\ chatMessages' = Bubble("system", <<"ticket_error">>)
            /\ UNCHANGED <<clientTickets, currentTicket, ticketAlreadyCreated,
                           currentPhase>>
    /\ PlayTTS
    /\ UNCHANGED <<serverVars, voiceEnabled, recordingVars, audioVars, page, chatHistory,
                   ticketData, uploadedFiles, readers, imageUploads, transcriptHtml>>

\* The file of the change event: an image or a file of another type.
Files == {[type |-> "image/png"], [type |-> "application/pdf"]}

\* handleImageUpload(event), up to reader.readAsDataURL(file).
handleImageUpload(file) ==
    /\ page = "chatPage"
    /\ IF file.type # "image/png"
       THEN UNCHANGED <<chatMessages, readers>>
       ELSE IF ~InUploadPhase(currentPhase)
            THEN /\ chatMessages' = Bubble("system", <<"wait">>)
                 /\ UNCHANGED readers
            ELSE /\ Len(readers) + Len(imageUploads) < MaxImages
                 /\ readers' = Append(readers, file)
                 /\ UNCHANGED chatMessages
    /\ UNCHANGED <<serverVars, voiceVars, page, chatHistory, currentTicket, currentPhase, ticketData,
                   ticketAlreadyCreated, uploadedFiles, clientTickets, calls,
                   imageUploads, transcriptHtml>>

\* switch (currentPhase) of reader.onload: undefined in every other phase.
UploadType(phase) ==
    CASE phase = "accident_photos" -> "accident_photos"
      [] phase = "id_card" -> "id_cards"
      [] phase = "driving_license" -> "driving_licenses"
      [] phase = "vehicle_registration" -> "vehicle_registrations"
      [] OTHER -> Undefined

\* The type field uploadImageToBackend(file, type = 'accident_photo') sends.
FormType(uploadType) ==
    IF uploadType = Undefined \/ uploadType = "accident_photo"
    THEN "accident_photos"
    ELSE uploadType

\* reader.onload of reader j, up to the await on uploadImage().
readerOnload(j) ==
    /\ j \in 1..Len(readers)
    /\ readers' = Remove(readers, j)
    /\ chatMessages' = Bubble("system", <<"uploading">>)
    /\ imageUploads' = Append(imageUploads,
                              [uploadType |-> UploadType(currentPhase),
                               type |-> FormType(UploadType(currentPhase))])
    /\ UNCHANGED <<serverVars, voiceVars, page, chatHistory, currentTicket, currentPhase, ticketData,
                   ticketAlreadyCreated, uploadedFiles, clientTickets, calls,
                   transcriptHtml>>

\* The filenames the conversation server answers an upload with.
Filenames == {"f1"}

\* reader.onload from the answer to uploadImage() on, up to the await in
\* getAIResponse(): the upload succeeded with the filename given, or failed.
uploadImage(k, ok, filename) ==
    /\ k \in 1..Len(imageUploads)
    /\ imageUploads' = Remove(imageUploads, k)
    /\ IF ~ok
       THEN /\ chatMessages' = Bubble("system", <<"upload_error">>)
            /\ UNCHANGED <<uploadedFiles, chatHistory, calls>>
       ELSE LET uploadType == imageUploads[k].uploadType
                uploaded == [filename |-> filename, type |-> uploadType]
            IN  /\ validateConfig
                /\ Len(chatHistory) < MaxHistory
                /\ Len(calls) < MaxCalls
                /\ IF uploadType = "accident_photos"
                   THEN /\ Len(uploadedFiles.accident_photos) < MaxPhotos
                        /\ uploadedFiles' =
                               [uploadedFiles EXCEPT !.accident_photos = Append(@, uploaded)]
                   ELSE uploadedFiles' = (currentPhase :> <<uploaded>>) @@ uploadedFiles
                /\ chatMessages' = Bubble("system", <<"uploaded">>)
                /\ chatHistory' = Append(chatHistory, UploadNotification)
                /\ calls' = Append(calls, NewCall)
    /\ UNCHANGED <<serverVars, voiceVars, page, currentTicket, currentPhase, ticketData,
                   ticketAlreadyCreated, clientTickets, readers, transcriptHtml>>

\* The transcript of viewTicketDetails(): the messages that are not system
\* messages, those of the assistant cleaned.
RECURSIVE TranscriptHtml(_)
TranscriptHtml(transcript) ==
    IF transcript = <<>> THEN <<>>
    ELSE LET msg == Head(transcript)
             displayContent == IF msg.role = "assistant"
                               THEN cleanMessageText(msg.content)
                               ELSE msg.content
         IN  IF msg.role = "system"
             THEN TranscriptHtml(Tail(transcript))
             ELSE <<[role |-> msg.role, displayContent |-> displayContent]>>
                  \o TranscriptHtml(Tail(transcript))

\* viewTicketDetails(ticketId) of the admin panel, for the ticket the backend
\* returns.
viewTicketDetails(ticket) ==
    /\ transcriptHtml' = TranscriptHtml(ticket.transcript)
    /\ UNCHANGED <<serverVars, voiceVars, page, chatHistory, currentTicket, currentPhase, ticketData,
                   ticketAlreadyCreated, uploadedFiles, clientTickets, chatMessages,
                   calls, readers, imageUploads>>

(***************************************************************************)
(* The responses of the LLM.                                               *)
(***************************************************************************)

\* Prose: plain, with white space inside, and with braces of its own.
Proses == {<<"w">>, <<"w", "s", "w">>, <<"w", "{", "w", "}">>}

\* State blocks that parse: flat, pretty-printed with the nested ticket
\* object, compact with the nested ticket object, and with an empty phase.
Blocks ==
    {<<"{", "Pi", "}">>,
     <<"{", "s", "Pa", ",", "s", "T", "s", "{", "K", "}", "s", "}">>,
     <<"{", "Pd", ",", "T", "{", "K", "}", "}">>,
     <<"{", "Pe", "}">>}

\* Blocks that do not parse: a trailing comma, a brace left open.
BrokenBlocks == {<<"{", "Pi", ",", "}">>, <<"{", "Pi">>}

FenceStyles == {"json", "plain", "none"}

\* The block inside a ```json fence, inside a plain fence, or bare.
Fenced(style, block) ==
    CASE style = "json" -> <<"F", "J", "s">> \o block \o <<"s", "F">>
      [] style = "plain" -> <<"F", "s">> \o block \o <<"s", "F">>
      [] style = "none" -> block

\* Prose followed by a state block.
StateMessages ==
    {[prose |-> p, style |-> st, block |-> b,
      message |-> p \o <<"s">> \o Fenced(st, b)] :
        p \in Proses, st \in FenceStyles, b \in Blocks \cup BrokenBlocks}

\* data.choices[0].message.content
Messages == Proses \cup {sm.message : sm \in StateMessages}

\* The responses of a conversation about the report: prose alone, and phase
\* done with the ticket in a ```json fence.
ChatMessages ==
    {<<"w">>,
     <<"w", "s">> \o Fenced("json", <<"{", "Pd", ",", "T", "{", "K", "}", "}">>)}

\* The responses of a conversation about the documents: the two kinds of
\* upload phase and the phase after them, each in a ```json fence.
UploadMessages ==
    {<<"w", "s">> \o Fenced("json", <<"{", "Pa", "}">>),
     <<"w", "s">> \o Fenced("json", <<"{", "Pi", "}">>),
     <<"w", "s">> \o Fenced("json", <<"{", "Ps", "}">>)}

\* The tickets the backend returns to the admin panel.
BackendTickets ==
    {[transcript |-> <<SystemPrompt, [role |-> "user", content |-> <<"w">>],
                       [role |-> "assistant", content |-> m]>>] : m \in Messages}

(***************************************************************************)
(* Chat client: text to speech.                                            *)
(***************************************************************************)

\* currentAudio.pause() when currentAudio is set: a playing element stops; an
\* element whose play() was refused keeps waiting for its 'Tap to play
\* audio' button.
Paused ==
    IF currentAudio # <<>> /\ audios[currentAudio[1]] = "playing"
    THEN [audios EXCEPT ![currentAudio[1]] = "paused"]
    ELSE audios

\* stopAudio()
stopAudio ==
    /\ audios' = Paused
    /\ currentAudio' = <<>>

\* playAudioWithMobileFallback(audioDataUrl): the element before is paused, a
\* new one is stored in currentAudio and played; when the browser refuses
\* the autoplay the element waits for the user's tap.
playAudioWithMobileFallback(autoplay) ==
    /\ Len(audios) < MaxAudios
    /\ audios' = Append(Paused, IF autoplay THEN "playing" ELSE "blocked")
    /\ currentAudio' = <<Len(audios) + 1>>

\* speakAssistantMessage() from the answer of POST /tts on: the request
\* failed (the error is logged), or its audio is played.
speakAssistantMessage(ok, autoplay) ==
    /\ ttsCalls > 0
    /\ ttsCalls' = ttsCalls - 1
    /\ IF ok THEN playAudioWithMobileFallback(autoplay) ELSE UNCHANGED <<currentAudio, audios>>
    /\ UNCHANGED <<serverVars, chatVars, voiceEnabled, recordingVars, speeches>>

\* The promise of playAudioWithMobileFallback() for element a settles: the
\* textToSpeech() call awaiting it goes on to onSpeechComplete (outcome
\* "complete") or to its catch block and onError (outcome "error").
Settled(a, outcome) ==
    [s \in 1..Len(speeches) |->
        IF speeches[s].pc = "playing" /\ speeches[s].audio = <<a>>
        THEN [speeches[s] EXCEPT !.pc = outcome]
        ELSE speeches[s]]

\* audio.onended of element a
onended(a) ==
    /\ a \in 1..Len(audios)
    /\ audios[a] = "playing"
    /\ audios' = [audios EXCEPT ![a] = "ended"]
    /\ currentAudio' = <<>>
    /\ speeches' = Settled(a, "complete")
    /\ UNCHANGED <<serverVars, chatVars, voiceEnabled, recordingVars, ttsCalls>>

\* The click on the 'Tap to play audio' button of element a.
playButtonClick(a) ==
    /\ a \in 1..Len(audios)
    /\ audios[a] = "blocked"
    /\ audios' = [audios EXCEPT ![a] = "playing"]
    /\ UNCHANGED <<serverVars, chatVars, voiceEnabled, recordingVars, ttsCalls, currentAudio,
                   speeches>>

\* audio.onerror of element a
onerror(a) ==
    /\ a \in 1..Len(audios)
    /\ audios[a] = "playing"
    /\ audios' = [audios EXCEPT ![a] = "error"]
    /\ currentAudio' = <<>>
    /\ speeches' = Settled(a, "error")
    /\ UNCHANGED <<serverVars, chatVars, voiceEnabled, recordingVars, ttsCalls>>

\* VoiceConversation.prototype.textToSpeech(text), the ElevenLabs override,
\* up to its await on textToSpeech(): onSpeechStart has been called.
textToSpeech ==
    /\ Len(speeches) < MaxSpeeches
    /\ speeches' = Append(speeches, [pc |-> "tts", audio |-> <<>>])
    /\ UNCHANGED <<serverVars, chatVars, voiceEnabled, recordingVars, ttsCalls, currentAudio,
                   audios>>

\* The override from the answer of POST /tts on: the request failed and the
\* catch block calls onError, or the audio is handed to
\* playAudioWithMobileFallback() and the call awaits its promise.
textToSpeechAnswer(s, ok, autoplay) ==
    /\ s \in 1..Len(speeches)
    /\ speeches[s].pc = "tts"
    /\ IF ok
       THEN /\ playAudioWithMobileFallback(autoplay)
            /\ speeches' = [speeches EXCEPT ![s] = [pc |-> "playing",
                                                    audio |-> <<Len(audios) + 1>>]]
       ELSE /\ speeches' = [speeches EXCEPT ![s].pc = "error"]
            /\ UNCHANGED <<currentAudio, audios>>
    /\ UNCHANGED <<serverVars, chatVars, voiceEnabled, recordingVars, ttsCalls>>

(***************************************************************************)
(* Chat client: voice recording.                                           *)
(***************************************************************************)

\* "Auto-stop after 60 seconds"
AutoStopSeconds == 60

\* stopRecordingTimer()
stopRecordingTimer ==
    /\ timers' = IF recordingTimer # <<>> THEN timers \ {recordingTimer[1]} ELSE timers
    /\ recordingTimer' = <<>>

\* stopRecording()
stopRecording ==
    IF mediaRecorder # <<>> /\ isRecording
    THEN /\ recorders' = [recorders EXCEPT ![mediaRecorder[1]] = "stopped"]
         /\ isRecording' = FALSE
         /\ stopRecordingTimer
    ELSE UNCHANGED <<recorders, isRecording, timers, recordingTimer>>

\* startRecording() up to its await on getUserMedia().
startRecording ==
    /\ micRequests < MaxMicRequests
    /\ stopAudio
    /\ voiceEnabled' = TRUE
    /\ micRequests' = micRequests + 1
    /\ UNCHANGED <<recorders, isRecording, timers, recordingTimer, speeches>>

\* toggleRecording(), the click on the microphone button.
toggleRecording ==
    /\ page = "chatPage"
    /\ IF isRecording
       THEN stopRecording /\ UNCHANGED <<voiceEnabled, micRequests, audioVars>>
       ELSE startRecording
    /\ UNCHANGED <<serverVars, chatVars, mediaRecorder, recordingSeconds, transcriptions,
                   ttsCalls>>

\* startRecording() from the answer to getUserMedia() on: the recorder is
\* created and started and startRecordingTimer() stores a new interval, or
\* the permission was refused.
getUserMedia(granted) ==
    /\ micRequests > 0
    /\ micRequests' = micRequests - 1
    /\ IF granted
       THEN /\ Len(recorders) < MaxRecorders
            /\ recorders' = Append(recorders, "recording")
            /\ mediaRecorder' = <<Len(recorders) + 1>>
            /\ isRecording' = TRUE
            /\ recordingSeconds' = 0
            /\ timers' = timers \cup {Len(recorders) + 1}
            /\ recordingTimer' = <<Len(recorders) + 1>>
       ELSE UNCHANGED <<recorders, mediaRecorder, isRecording, recordingSeconds, timers,
                        recordingTimer>>
    /\ UNCHANGED <<serverVars, chatVars, voiceEnabled, transcriptions, ttsCalls, audioVars>>

\* The callback of the interval t that startRecordingTimer() set.
recordingTick(t) ==
    /\ t \in timers
    /\ recordingSeconds < MaxSeconds
    /\ recordingSeconds' = recordingSeconds + 1
    /\ IF recordingSeconds' >= AutoStopSeconds
       THEN stopRecording
       ELSE UNCHANGED <<recorders, isRecording, timers, recordingTimer>>
    /\ UNCHANGED <<serverVars, chatVars, voiceEnabled, mediaRecorder, micRequests,
                   transcriptions, ttsCalls, audioVars>>

\* mediaRecorder.onstop of recorder r: transcribeAudio() up to its fetch.
onstop(r) ==
    /\ r \in 1..Len(recorders)
    /\ recorders[r] = "stopped"
    /\ validateConfig
    /\ recorders' = [recorders EXCEPT ![r] = "inactive"]
    /\ chatMessages' = Bubble("system", <<"processing">>)
    /\ transcriptions' = transcriptions + 1
    /\ UNCHANGED <<serverVars, page, chatHistory, currentTicket, currentPhase, ticketData,
                   ticketAlreadyCreated, uploadedFiles, clientTickets, calls, readers,
                   imageUploads, transcriptHtml, voiceEnabled, mediaRecorder, recordingTimer,
                   timers, recordingSeconds, isRecording, micRequests, ttsCalls, audioVars>>

\* transcribeAudio() from the answer to its fetch on: the text becomes a user
\* message and getAIResponse() is called, or nothing was understood, or the
\* request failed.
transcribeAudio(ok, transcribedText) ==
    /\ transcriptions > 0
    /\ transcriptions' = transcriptions - 1
    /\ IF ok /\ transcribedText # <<>>
       THEN /\ Len(chatHistory) < MaxHistory
            /\ Len(calls) < MaxCalls
            /\ chatMessages' = Bubble("user", transcribedText)
            /\ chatHistory' = Append(chatHistory,
                                     [role |-> "user", content |-> transcribedText])
            /\ calls' = Append(calls, NewCall)
       ELSE /\ chatMessages' = Bubble("system", IF ok THEN <<"not_understood">>
                                                     ELSE <<"error">>)
            /\ UNCHANGED <<chatHistory, calls>>
    /\ UNCHANGED <<serverVars, page, currentTicket, currentPhase, ticketData,
                   ticketAlreadyCreated, uploadedFiles, clientTickets, readers,
                   imageUploads, transcriptHtml, voiceEnabled, mediaRecorder, recorders,
                   recordingTimer, timers, recordingSeconds, isRecording, micRequests,
                   ttsCalls, audioVars>>

(***************************************************************************)
(* Conversation server: speech to text.                                    *)
(***************************************************************************)
InitSttVars ==
    /\ GROQ_API_KEY = "gsk"
    /\ temp_audio = {}
    /\ nextAudio = 1
    /\ sttCalls = <<>>

\* audioFileFilter: the listed types and every mimetype that starts with
\* 'audio/'.
allowedAudioTypes == {"audio/webm", "audio/wav", "audio/mp3", "audio/mpeg", "audio/ogg",
                      "audio/x-m4a"}

StartsWithAudio(mimetype) == mimetype \in allowedAudioTypes \cup {"audio/aac"}

audioFileFilter(file) ==
    file.mimetype \in allowedAudioTypes \/ StartsWithAudio(file.mimetype)

\* The multipart bodies of POST /stt: no 'audio' part or one, of a mimetype
\* and within or over the 10MB limit, and the 'language' field.
SttBodies ==
    [audio : {<<>>} \cup {<<f>> : f \in [mimetype : {"audio/webm", "audio/aac", "video/mp4"},
                                         oversize : BOOLEAN]},
     language : {Undefined, "en"}]

\* The answer to a POST /stt request; file is the temp file multer stored for
\* it, <<>> when it stored none.
SttRes(file, status, message) ==
    [route |-> "POST /stt", id |-> Undefined, auth |-> NoHeader, file |-> file,
     status |-> status, message |-> message]

\* audioUpload.single('audio') followed by app.post('/stt') up to its await
\* on the Groq request, and by the error-handling middleware when multer fails.
Stt(req) ==
    /\ UNCHANGED <<now, storeVars, dbVars, clientVars>>
    /\ IF req.audio = <<>>
       THEN /\ res' = SttRes(<<>>, 400, "Audio file is required")
            /\ UNCHANGED sttVars
       ELSE IF ~audioFileFilter(req.audio[1])
       THEN /\ res' = SttRes(<<>>, 500, "Invalid audio file type. Only audio files are allowed.")
            /\ UNCHANGED sttVars
       ELSE IF req.audio[1].oversize
       THEN /\ res' = SttRes(<<>>, 400, "File too large. Maximum size is 10MB")
            /\ UNCHANGED sttVars
       ELSE /\ nextAudio <= MaxAudio
            /\ nextAudio' = nextAudio + 1
            /\ temp_audio' = temp_audio \cup {nextAudio}
            /\ UNCHANGED GROQ_API_KEY
            /\ IF ~Truthy(GROQ_API_KEY)
               THEN /\ res' = SttRes(<<nextAudio>>, 500, "Groq API key not configured")
                    /\ UNCHANGED sttCalls
               ELSE /\ sttCalls' = Append(sttCalls,
                                          [file |-> nextAudio,
                                           language |-> IF Truthy(req.language)
                                                        THEN req.language ELSE "ar"])
                    /\ UNCHANGED res

\* app.post('/stt') from the answer of Groq on: the transcription, or the
\* catch block when the request failed; both unlink the temp file, and a
\* failing unlink is caught.
SttAnswer(i, ok, unlinkOk) ==
    /\ i \in 1..Len(sttCalls)
    /\ sttCalls' = SubSeq(sttCalls, 1, i - 1) \o SubSeq(sttCalls, i + 1, Len(sttCalls))
    /\ temp_audio' = IF unlinkOk THEN temp_audio \ {sttCalls[i].file} ELSE temp_audio
    /\ res' = IF ok THEN SttRes(<<sttCalls[i].file>>, 200, sttCalls[i].language)
                    ELSE SttRes(<<sttCalls[i].file>>, 500, "Error transcribing audio")
    /\ UNCHANGED <<GROQ_API_KEY, nextAudio>>
    /\ UNCHANGED <<now, storeVars, dbVars, clientVars>>

(***************************************************************************)
(* The specifications.                                                     *)
(***************************************************************************)
InitDb ==
    /\ now = 0
    /\ res = NoRes
    /\ dataFile = <<>>
    /\ nextUuid = 1
    /\ disk = {}
    /\ InitDbVars
    /\ InitSttVars
    /\ InitChatVars
    /\ InitVoiceVars

NextDb ==
    \/ \E h \in AuthHeaders : ApiGetTickets(h)
    \/ \E h \in AuthHeaders, id \in TicketIds : ApiGetTicket(h, id)
    \/ \E req \in ApiTicketBodies : ApiPostTicket(req)
    \/ \E h \in AuthHeaders, id \in TicketIds, body \in ApiPutBodies : ApiPutTicket(h, id, body)
    \/ \E h \in AuthHeaders, id \in TicketIds : ApiDeleteTicket(h, id)
    \/ \E id \in TicketIds, body \in ConversationBodies : ApiAddConversation(id, body)
    \/ \E id \in TicketIds, body \in FindingBodies : ApiAddFinding(id, body)
    \/ \E req \in AudioBodies : ApiUploadAudio(req)

SpecDb == InitDb /\ [][NextDb]_vars

\* The backend with the admin of init-db, alone or with a user of the
\* default role.
InitAuth ==
    /\ now = 0
    /\ res = NoRes
    /\ dataFile = <<>>
    /\ nextUuid = 1
    /\ disk = {}
    /\ users \in {<<AdminUser>>,
                  <<AdminUser, [id |-> "u2", username |-> "guest", role |-> "user",
                                password_hash |-> bcryptHash("guest1"),
                                last_login |-> Null]>>}
    /\ tickets = <<>>
    /\ attachments = <<>>
    /\ conversations = <<>>
    /\ findings = <<>>
    /\ audio_files = <<>>
    /\ audioDir = 0
    /\ InitSttVars
    /\ InitChatVars
    /\ InitVoiceVars

NextAuth ==
    \/ \E body \in LoginBodies : ApiLogin(body)
    \/ \E h \in AuthHeaders : ApiVerify(h)
    \/ ApiLogout

SpecAuth == InitAuth /\ [][NextAuth]_vars


InitStore ==
    /\ now = 0
    /\ res = NoRes
    /\ dataFile = <<>>
    /\ nextUuid = 1
    /\ disk = {}
    /\ InitDbVars
    /\ InitSttVars
    /\ InitChatVars
    /\ InitVoiceVars

NextStore ==
    \/ \E req \in TicketsBodies : PostTickets(req, TRUE, TRUE)
    \/ \E req \in StoreUploadBodies : Upload(req, TRUE, TRUE, TRUE)
    \/ GetTickets(TRUE)
    \/ \E id \in TicketIds : GetTicket(id, TRUE)

SpecStore == InitStore /\ [][NextStore]_vars

\* The ticket store when reads and writes of the data file can fail.
InitFaults ==
    /\ now = 0
    /\ res = NoRes
    /\ dataFile = <<>>
    /\ nextUuid = 1
    /\ disk = {}
    /\ InitDbVars
    /\ InitSttVars
    /\ InitChatVars
    /\ InitVoiceVars

NextFaults ==
    \/ \E req \in TicketsBodies, readOk \in BOOLEAN, writeOk \in BOOLEAN :
          PostTickets(req, readOk, writeOk)
    \/ \E req \in StoreUploadBodies, readOk \in BOOLEAN, writeOk \in BOOLEAN :
          Upload(req, readOk, writeOk, TRUE)
    \/ \E readOk \in BOOLEAN : GetTickets(readOk)
    \/ \E id \in TicketIds, readOk \in BOOLEAN : GetTicket(id, readOk)

SpecFaults == InitFaults /\ [][NextFaults]_vars

\* The conversation server under uploads of every kind.
InitFiles ==
    /\ now = 0
    /\ res = NoRes
    /\ dataFile = <<>>
    /\ nextUuid = 1
    /\ disk = {}
    /\ InitDbVars
    /\ InitSttVars
    /\ InitChatVars
    /\ InitVoiceVars

NextFiles ==
    \/ \E req \in UploadBodies : Upload(req, TRUE, TRUE, TRUE)
    \/ GetTickets(TRUE)
    \/ \E id \in TicketIds : GetTicket(id, TRUE)

SpecFiles == InitFiles /\ [][NextFiles]_vars

\* The speech-to-text route, with and without a Groq API key in the
\* environment of the server.
InitStt ==
    /\ now = 0
    /\ res = NoRes
    /\ dataFile = <<>>
    /\ nextUuid = 1
    /\ disk = {}
    /\ InitDbVars
    /\ GROQ_API_KEY \in {Undefined, "gsk"}
    /\ temp_audio = {}
    /\ nextAudio = 1
    /\ sttCalls = <<>>
    /\ InitChatVars
    /\ InitVoiceVars

NextStt ==
    \/ \E req \in SttBodies : Stt(req)
    \/ \E i \in 1..MaxAudio, ok \in BOOLEAN : SttAnswer(i, ok, TRUE)

SpecStt == InitStt /\ [][NextStt]_vars

\* The chat client in voice mode.
VoiceMessages == {<<"w">>}

InitVoice ==
    /\ now = 0
    /\ res = NoRes
    /\ dataFile = <<>>
    /\ nextUuid = 1
    /\ disk = {}
    /\ InitDbVars
    /\ InitSttVars
    /\ InitChatVars
    /\ InitVoiceVars

NextVoice ==
    \/ startReport
    \/ \E i \in 1..MaxCalls, ok \in BOOLEAN, fullMessage \in VoiceMessages :
          getAIResponse(i, ok, fullMessage)
    \/ toggleRecording
    \/ \E granted \in BOOLEAN : getUserMedia(granted)
    \/ \E t \in 1..MaxRecorders : recordingTick(t)
    \/ \E r \in 1..MaxRecorders : onstop(r)
    \/ \E ok \in BOOLEAN, transcribedText \in UserMessages : transcribeAudio(ok, transcribedText)
    \/ \E ok \in BOOLEAN, autoplay \in BOOLEAN : speakAssistantMessage(ok, autoplay)
    \/ \E a \in 1..MaxAudios : onended(a)
    \/ \E a \in 1..MaxAudios : playButtonClick(a)

SpecVoice == InitVoice /\ [][NextVoice]_vars

\* The voice conversation speaking: the ElevenLabs override of textToSpeech,
\* the audio elements and the microphone button of the voice module.  The
\* answer to a request arrives, a playing element ends, and a shown button is
\* tapped.
InitSpeech ==
    /\ now = 0
    /\ res = NoRes
    /\ dataFile = <<>>
    /\ nextUuid = 1
    /\ disk = {}
    /\ InitDbVars
    /\ InitSttVars
    /\ InitChatVars
    /\ InitVoiceVars

NextSpeech ==
    \/ startReport
    \/ toggleRecording
    \/ \E granted \in BOOLEAN : getUserMedia(granted)
    \/ textToSpeech
    \/ \E s \in 1..MaxSpeeches, ok \in BOOLEAN, autoplay \in BOOLEAN :
          textToSpeechAnswer(s, ok, autoplay)
    \/ \E a \in 1..MaxAudios : onended(a)
    \/ \E a \in 1..MaxAudios : onerror(a)
    \/ \E a \in 1..MaxAudios : playButtonClick(a)

FairSpeech ==
    /\ \A s \in 1..MaxSpeeches :
          WF_vars(\E ok \in BOOLEAN, autoplay \in BOOLEAN : textToSpeechAnswer(s, ok, autoplay))
    /\ \A a \in 1..MaxAudios : WF_vars(onended(a) \/ onerror(a))
    /\ \A a \in 1..MaxAudios : WF_vars(playButtonClick(a))

SpecSpeech == InitSpeech /\ [][NextSpeech]_vars /\ FairSpeech

InitChat ==
    /\ now = 0
    /\ res = NoRes
    /\ dataFile = <<>>
    /\ nextUuid = 1
    /\ disk = {}
    /\ InitDbVars
    /\ InitSttVars
    /\ InitChatVars
    /\ InitVoiceVars

NextChat ==
    \/ startReport
    \/ goToLanding
    \/ \E message \in UserMessages : sendMessage(message)
    \/ \E i \in 1..MaxCalls, ok \in BOOLEAN, fullMessage \in ChatMessages :
          getAIResponse(i, ok, fullMessage)
    \/ \E i \in 1..MaxCalls, ok \in BOOLEAN : TicketsResponse(i, ok)
    \/ \E i \in 1..MaxCalls : createTicketFromLLMData(i)

SpecChat == InitChat /\ [][NextChat]_vars

InitUpload ==
    /\ now = 0
    /\ res = NoRes
    /\ dataFile = <<>>
    /\ nextUuid = 1
    /\ disk = {}
    /\ InitDbVars
    /\ InitSttVars
    /\ InitChatVars
    /\ InitVoiceVars

NextUpload ==
    \/ startReport
    \/ goToLanding
    \/ \E i \in 1..MaxCalls, ok \in BOOLEAN, fullMessage \in UploadMessages :
          getAIResponse(i, ok, fullMessage)
    \/ \E file \in Files : handleImageUpload(file)
    \/ \E j \in 1..MaxImages : readerOnload(j)
    \/ \E k \in 1..MaxImages, ok \in BOOLEAN, filename \in Filenames :
          uploadImage(k, ok, filename)

SpecUpload == InitUpload /\ [][NextUpload]_vars

\* The chat page after startReport(), the first response awaited.
InitText ==
    /\ now = 0
    /\ res = NoRes
    /\ dataFile = <<>>
    /\ nextUuid = 1
    /\ disk = {}
    /\ InitDbVars
    /\ InitSttVars
    /\ page = "chatPage"
    /\ chatHistory = <<SystemPrompt>>
    /\ currentTicket = <<>>
    /\ currentPhase = "greeting"
    /\ ticketData = EmptyObject
    /\ ticketAlreadyCreated = FALSE
    /\ uploadedFiles = NoUploadedFiles
    /\ clientTickets = <<>>
    /\ chatMessages = NoBubble
    /\ calls = <<NewCall>>
    /\ readers = <<>>
    /\ imageUploads = <<>>
    /\ transcriptHtml = <<>>
    /\ InitVoiceVars

NextText ==
    \/ \E i \in 1..MaxCalls, ok \in BOOLEAN, fullMessage \in Messages :
          getAIResponse(i, ok, fullMessage)
    \/ \E i \in 1..MaxCalls, ok \in BOOLEAN : TicketsResponse(i, ok)
    \/ \E i \in 1..MaxCalls : createTicketFromLLMData(i)
    \/ \E ticket \in BackendTickets : viewTicketDetails(ticket)

SpecText == InitText /\ [][NextText]_vars


(***************************************************************************)
(* Claims about the JSON-file ticket store.                                *)
(***************************************************************************)

\* C1: after any sequence of POST /tickets and POST /upload requests, no two
\* tickets of the JSON-file store have the same id.
C1_UniqueTicketIds ==
    \A i, j \in 1..Len(dataFile) : i # j => dataFile[i].id # dataFile[j].id

\* Both routes have created a ticket and both have hit an existing id.
C1_Witness ==
    /\ Len(dataFile) = 2
    /\ \E i \in 1..2 : dataFile[i].uploads # <<>> /\ dataFile[i].transcript # Undefined
    /\ \E i \in 1..2 : dataFile[i].updatedAt > dataFile[i].createdAt

\* The values a ticket shows for the three fields POST /tickets stores.
TicketFields(ticket) ==
    <<ticket.transcript, ticket.extracted_data, ticket.description>>

\* The POST /tickets bodies for t with a non-empty value for each of the three.
CompleteBodies(t) ==
    [ticket_id : {t}, transcript : Transcripts,
     extracted_data : ExtractedData, description : Descriptions]

Referenced(tbl) == \A i \in 1..Len(tbl) : HasTicket(tickets, tbl[i].ticket_id)

\* C2: with foreign keys ON, after any sequence of create-ticket,
\* add-conversation, add-finding, audio-upload and delete-ticket requests
\* every row of attachments, conversations, findings and audio_files has the
\* ticket_id of an existing tickets row.
C2_ForeignKeysHold ==
    /\ Referenced(attachments)
    /\ Referenced(conversations)
    /\ Referenced(findings)
    /\ Referenced(audio_files)

\* A ticket has just been deleted while another ticket keeps its rows.
C2_Witness ==
    /\ res.route = "DELETE /api/tickets/:ticketId" /\ res.status = 200
    /\ Len(tickets) = 1
    /\ ChildRows = MaxChildRows

\* An add to a ticket that does not exist has just been refused.
C2_WitnessRefused ==
    /\ res.route = "POST /api/tickets/:ticketId/conversations" /\ res.status = 500
    /\ Len(tickets) = 1

\* C8 as stated: POST /api/tickets with a ticket_id that already exists
\* answers 409 'Ticket ID already exists' and leaves tickets and attachments
\* unchanged.
C8_DuplicateAnswers409 ==
    [][\A req \in ApiTicketBodies :
          (HasTicket(tickets, req.ticket_id) /\ ApiPostTicket(req))
          => /\ res'.status = 409
             /\ res'.message = "Ticket ID already exists"
             /\ UNCHANGED <<tickets, attachments>>
      ]_vars

\* A header that carries no token, or one jwt.verify refuses.
NoValidToken(header) ==
    \/ "token" \notin DOMAIN header
    \/ header.token.secret # JWT_SECRET
    \/ header.token.expired

ProtectedRoutes ==
    {"GET /api/tickets", "GET /api/tickets/:ticketId",
     "PUT /api/tickets/:ticketId", "DELETE /api/tickets/:ticketId"}

\* C9: GET /api/tickets, GET /api/tickets/:ticketId, PUT and DELETE
\* /api/tickets/:ticketId called without a bearer token, or with one that
\* fails verification, answer 401, return no ticket data and change no row.
C9_NoTokenAnswers401 ==
    /\ [](\A h \in AuthHeaders : NoValidToken(h) =>
            /\ ApiGetTicketsResponse(h).status = 401
            /\ DOMAIN ApiGetTicketsResponse(h) = {"status", "success", "message"}
            /\ \A id \in TicketIds :
                  /\ ApiGetTicketResponse(h, id).status = 401
                  /\ DOMAIN ApiGetTicketResponse(h, id) = {"status", "success", "message"})
    /\ [][(res'.route \in ProtectedRoutes /\ NoValidToken(res'.auth))
          => res'.status = 401 /\ UNCHANGED dbVars
         ]_vars

\* A DELETE without a valid token has just been refused, with rows stored.
C9_Witness ==
    /\ res.route = "DELETE /api/tickets/:ticketId" /\ res.status = 401
    /\ NoValidToken(res.auth)
    /\ Len(tickets) = 2
    /\ ChildRows > 0

\* C10: DELETE /api/tickets/:ticketId with a valid token whose role is not
\* 'admin' answers 403 and removes nothing; a step that removes a ticket
\* handles a DELETE carrying a valid token with role 'admin'.
C10_DeleteAdminOnly ==
    [][/\ ( /\ res'.route = "DELETE /api/tickets/:ticketId"
            /\ ~NoValidToken(res'.auth)
            /\ res'.auth.token.role # "admin" )
          => res'.status = 403 /\ UNCHANGED <<tickets, childTables>>
       /\ (\E id \in TicketIds : HasTicket(tickets, id) /\ ~HasTicket(tickets', id))
          => /\ res'.route = "DELETE /api/tickets/:ticketId"
             /\ ~NoValidToken(res'.auth)
             /\ res'.auth.token.role = "admin"
      ]_vars

\* A DELETE by a non-admin has just been refused, with rows stored.
C10_Witness ==
    /\ res.route = "DELETE /api/tickets/:ticketId" /\ res.status = 403
    /\ Len(tickets) = 2
    /\ ChildRows > 0

(***************************************************************************)
(* Claims about the chat client.                                           *)
(***************************************************************************)

\* The calls whose POST /tickets request the backend has accepted and whose
\* answer the client has not handled yet.
AcceptedCalls == {i \in 1..Len(calls) : calls[i].pc = "accepted"}

\* C4: between startReport and the next goToLanding the chat client creates
\* the ticket once: the backend accepts at most one ticket-creation request
\* (the accepted requests whose answer is still on its way and the ticket
\* created since the session began are at most one together), and a ticket is
\* pushed to the local tickets list only when none has been created since the
\* session began.
C4_TicketCreatedOnce ==
    /\ [](Cardinality(AcceptedCalls) + Len(currentTicket) <= 1)
    /\ [][Len(clientTickets') > Len(clientTickets) => currentTicket = <<>>]_vars

\* C5: handleImageUpload starts an upload only if currentPhase is one of
\* accident_photos, id_card, driving_license, vehicle_registration when the
\* file is selected (a reader is created only then, and an upload request is
\* sent only by a reader); in every other phase it makes no request and
\* leaves uploadedFiles and chatHistory unchanged.
C5_UploadGating ==
    [][/\ Len(readers') > Len(readers) => currentPhase \in validUploadPhases
       /\ Len(imageUploads') > Len(imageUploads) => Len(readers') < Len(readers)
       /\ \A file \in Files :
             (currentPhase \notin validUploadPhases /\ handleImageUpload(file))
             => UNCHANGED <<readers, imageUploads, uploadedFiles, chatHistory>>
      ]_vars

\* An image selected in phase summary has just been refused, after the upload
\* of an id card.
C5_Witness ==
    /\ chatMessages = Bubble("system", <<"wait">>)
    /\ currentPhase = "summary"
    /\ uploadedFiles.id_card # <<>>
    /\ Len(chatHistory) > 1
    /\ readers = <<>> /\ imageUploads = <<>>

\* The step is getAIResponse handling the response fullMessage.
Answered(fullMessage) ==
    chatHistory' = Append(chatHistory, [role |-> "assistant", content |-> fullMessage])

\* C6: when getAIResponse processes an LLM response whose state block parses
\* and has a non-empty phase, currentPhase becomes that phase and ticketData
\* the block's ticket object when it has one; with no block, with a block that
\* does not parse or has an empty phase, and when the request fails,
\* currentPhase and ticketData keep their values.
C6_PhaseTracking ==
    [][/\ \A sm \in StateMessages :
             Answered(sm.message) =>
                 LET block == JSONparse(sm.block)
                 IN  IF block.ok /\ block.val.phase # <<>> /\ block.val.phase[1] # ""
                     THEN /\ currentPhase' = block.val.phase[1]
                          /\ ticketData' = IF block.val.ticket # <<>>
                                           THEN block.val.ticket[1]
                                           ELSE ticketData
                     ELSE UNCHANGED <<currentPhase, ticketData>>
       /\ \A prose \in Proses :
             Answered(prose) => UNCHANGED <<currentPhase, ticketData>>
       /\ chatMessages' = Bubble("system", <<"error">>)
             => UNCHANGED <<currentPhase, ticketData>>
      ]_vars

\* Prose followed by a state block with the nested ticket object.
TicketMessages ==
    {sm \in StateMessages :
        /\ sm.block \in Blocks
        /\ JSONparse(sm.block).val.ticket # <<>>
        /\ sm.prose \in {<<"w">>, <<"w", "s", "w">>}}

\* C7: for an assistant message made of prose followed by a state block with
\* the nested ticket object, inside a ```json fence, inside a plain fence or
\* unfenced, the text shown in the chat (extractMessageText) and the text
\* shown in the admin transcript (cleanMessageText) is the prose alone.
C7_BlockStripped ==
    [][\A sm \in TicketMessages :
          /\ Answered(sm.message) => chatMessages' = Bubble("assistant", sm.prose)
          /\ \A ticket \in BackendTickets :
                (ticket.transcript[3].content = sm.message /\ viewTicketDetails(ticket))
                => transcriptHtml'[2].displayContent = sm.prose
      ]_vars

\* C11: GET /api/tickets returns the list of all tickets with their
\* attachments only to a caller whose verified token carries role 'admin':
\* a request answered 200 with the list carried a token that verifies and has
\* role 'admin'.
C11_ListAdminOnly ==
    [][(res'.route = "GET /api/tickets" /\ res'.status = 200 /\ tickets # <<>>)
       => /\ ~NoValidToken(res'.auth)
          /\ res'.auth.token.role = "admin"
      ]_vars

\* The credentials of body are those of a row of users.
ValidCredentials(body) ==
    \E i \in 1..Len(users) :
        /\ users[i].username = body.username
        /\ users[i].password_hash = bcryptHash(body.password)

Refused(file) == file.mimetype \notin AllowedTypes \/ file.oversize

\* The first file of the request that multer refuses, 0 when there is none.
FirstRefused(files) ==
    IF \E k \in 1..Len(files) : Refused(files[k])
    THEN Min({k \in 1..Len(files) : Refused(files[k])})
    ELSE 0

\* C13: POST /upload accepts a file only if its mimetype is an allowed image
\* type or application/pdf and its size is at most 10MB; a request with a
\* refused file is answered with an error (400 'File too large. Maximum size
\* is 10MB' when the file is oversized), reports no file url and adds no upload
\* to any ticket.
C13_UploadValidation ==
    [][res'.route = "POST /upload" =>
              LET req == res'.req
                  k == FirstRefused(req.files)
              IN  /\ res'.status = UploadResponse(req).status
                  /\ (res'.status = 200 \/ "files" \in DOMAIN UploadResponse(req)) => k = 0
                  /\ k # 0 =>
                        /\ res'.status \in {400, 500}
                        /\ ~UploadResponse(req).success
                        /\ "files" \notin DOMAIN UploadResponse(req)
                        /\ UNCHANGED <<dataFile, disk>>
                  /\ (k # 0 /\ req.files[k].mimetype \in AllowedTypes) =>
                        /\ res'.status = 400
                        /\ res'.message = "File too large. Maximum size is 10MB"
      ]_vars

\* An upload has just been refused for its size, a ticket with an upload
\* being stored.
C13_Witness ==
    /\ res.route = "POST /upload" /\ res.status = 400
    /\ res.message = "File too large. Maximum size is 10MB"
    /\ \E i \in 1..Len(dataFile) : dataFile[i].uploads # <<>>

TicketRequests == {i \in 1..Len(calls) : calls[i].pc = "tickets"}

\* C16: the transcript of a ticket-creation request holds the system prompt
\* followed by the user and assistant messages appended to chatHistory, in
\* append order, up to and including the assistant message whose state block
\* declared phase 'done'.
C16_FullTranscript ==
    /\ [](\A i \in TicketRequests :
             LET transcript == calls[i].ticket[1].transcript
                 last == transcript[Len(transcript)]
             IN  /\ Len(transcript) >= 2
                 /\ transcript[1] = SystemPrompt
                 /\ \A k \in 2..Len(transcript) : transcript[k].role \in {"user", "assistant"}
                 /\ last.role = "assistant"
                 /\ HasPhase(parseLLMState(last.content))
                 /\ parseLLMState(last.content)[1].phase[1] = "done")
    /\ [][Cardinality(TicketRequests') > Cardinality(TicketRequests)
             => \A i \in TicketRequests' \ TicketRequests :
                   /\ calls'[i].ticket[1].transcript = chatHistory'
                   /\ SubSeq(chatHistory', 1, Len(chatHistory)) = chatHistory]_vars

\* C17: once a POST /stt request that carried an audio file is answered, be
\* it with the transcription, with a transcription error or because the Groq
\* API key is not configured, the temp file saved for it is no longer under
\* uploads/temp_audio.
C17_TempAudioRemoved ==
    [][(res'.route = "POST /stt" /\ res' # res /\ res'.file # <<>>)
       => res'.file[1] \notin temp_audio']_vars

(***************************************************************************)
(* Claims about the voice mode of the chat client.                         *)
(***************************************************************************)

\* The TTS audio elements that are playing.
PlayingAudios == {a \in 1..Len(audios) : audios[a] = "playing"}

\* C18: from the moment startRecording() begins until the recording stops
\* (while its microphone request is pending and while the recording runs) no
\* TTS audio is playing, whatever TTS requests getAIResponse() issued before.
C18_MicSilencesSpeech ==
    (micRequests > 0 \/ isRecording) => PlayingAudios = {}

\* The MediaRecorders that are recording.
ActiveRecorders == {r \in 1..Len(recorders) : recorders[r] = "recording"}

\* C19: at most one MediaRecorder records at a time, a start or toggle made
\* before the current recording has stopped (the microphone request of an
\* earlier call pending included) creates no second one, and a stop ends the
\* recording that was started: none is recording once the flag is down.
C19_OneRecording ==
    /\ [](Cardinality(ActiveRecorders) <= 1)
    /\ []((~isRecording) => ActiveRecorders = {})
    /\ [][Len(recorders') > Len(recorders) => ActiveRecorders = {}]_vars

\* C20: while isRecording is true recordingSeconds never exceeds 60, and after
\* any stop, manual or automatic, no recording timer keeps running.
C20_AutoStop ==
    /\ [](isRecording => recordingSeconds <= AutoStopSeconds)
    /\ [][(isRecording /\ ~isRecording') => timers' = {}]_vars

\* C21: at most one TTS audio element is playing at any time, also when the
\* playback of an earlier message was blocked by autoplay and deferred to its
\* 'Tap to play audio' button.
C21_OneAudioPlaying == Cardinality(PlayingAudios) <= 1

\* The textToSpeech() calls that have called onSpeechStart and neither
\* onSpeechComplete nor onError.
UnsettledSpeeches == {s \in 1..Len(speeches) : speeches[s].pc \in {"tts", "playing"}}

\* C22: every TTS playback that is started eventually settles: after the
\* ElevenLabs override of textToSpeech has called onSpeechStart it eventually
\* calls onSpeechComplete or onError, also when its audio is stopped by
\* stopAudio or replaced by a newer message before it ends.
C22_SpeechSettles ==
    \A s \in 1..MaxSpeeches : (s \in UnsettledSpeeches) ~> (s \notin UnsettledSpeeches)

\* C23: from goToLanding until the next startReport (while the landing page
\* is shown) chatHistory is empty, currentPhase is 'greeting', ticketData is
\* empty, voiceEnabled and ticketAlreadyCreated are false and uploadedFiles
\* is empty, also when an LLM response, a ticket-creation response or an
\* image upload requested before the reset completes after it.
C23_LandingResets ==
    page = "landingPage" =>
        /\ chatHistory = <<>>
        /\ currentPhase = "greeting"
        /\ ticketData = EmptyObject
        /\ ~voiceEnabled
        /\ ~ticketAlreadyCreated
        /\ uploadedFiles = NoUploadedFiles

\* C24: the JSON-file store never loses tickets: over POST /tickets and POST
\* /upload requests every ticket id of the data file stays in it, and a
\* request for one id leaves every ticket with another id as it was, also
\* when a read or parse of the data file fails during a request.
C24_NoTicketLost ==
    [][\A i \in 1..Len(dataFile) :
          \E j \in 1..Len(dataFile') :
             /\ dataFile'[j].id = dataFile[i].id
             /\ dataFile[i].id # res'.id => dataFile'[j] = dataFile[i]]_vars

====
